---- MODULE Spec2Model ----
(***************************************************************************)
(* Model of grumble's flag registry and parser (flags.go) and of its       *)
(* completer (completer.Do).  Go strings are sequences of one-character    *)
(* strings, so that prefix tests, the '=' split and quote trimming are     *)
(* computed as the code computes them.                                     *)
(***************************************************************************)
EXTENDS Integers, Sequences, FiniteSets, TLC

VARIABLES
    list,       \* Flags.list: sequence of flagItem
    parsers,    \* Flags.parsers: sequence of parse closures
    defaults,   \* Flags.defaults: long name -> default closure
    op,         \* the last operation performed
    pArgs,      \* parse: the args it was called with
    res,        \* parse: the FlagMap handed in (fresh), as left by the call
    rest,       \* parse: the returned remaining args (nil is <<>>)
    err,        \* parse: the returned error
    bound,      \* parse: long names written by the flags parsed, in order
    flagPos,    \* parse: indexes of the tokens inspected in flag position
    doIn,       \* Do: line, pos, FindCommand's answer, the completer's answer
    doCall,     \* Do: the arguments the custom completer was invoked with
    newLine,    \* Do: the returned suggestions
    length,     \* Do: the returned length
    doPanic     \* Do: the call panicked (index out of range)

vars == <<list, parsers, defaults, op, pArgs, res, rest, err, bound, flagPos,
          doIn, doCall, newLine, length, doPanic>>

parseVars == <<pArgs, res, rest, err, bound, flagPos>>
doVars    == <<doIn, doCall, newLine, length, doPanic>>
regVars   == <<list, parsers, defaults>>

----------------------------------------------------------------------------
(* Bounds *)

MaxFlags == 2
MaxArgs == 3
MaxNetArgs == 3
MaxWords == 2

----------------------------------------------------------------------------
(* Go strings *)

EmptyMap == [k \in {} |-> 0]

Digits == {"0", "1", "2", "3", "4", "5", "6", "7", "8", "9"}

DigitVal(c) ==
    CASE c = "0" -> 0 [] c = "1" -> 1 [] c = "2" -> 2 [] c = "3" -> 3
      [] c = "4" -> 4 [] c = "5" -> 5 [] c = "6" -> 6 [] c = "7" -> 7
      [] c = "8" -> 8 [] c = "9" -> 9

\* strings.HasPrefix(s, p)
HasPrefix(s, p) == Len(p) <= Len(s) /\ SubSeq(s, 1, Len(p)) = p

\* strings.TrimPrefix(s, p)
TrimPrefix(s, p) == IF HasPrefix(s, p) THEN SubSeq(s, Len(p) + 1, Len(s)) ELSE s

\* strings.Index(s, c) for a one-character c: 0-based, -1 when absent
Index(s, c) ==
    IF \E i \in 1..Len(s) : s[i] = c
    THEN (CHOOSE i \in 1..Len(s) : s[i] = c /\ \A j \in 1..(i - 1) : s[j] # c) - 1
    ELSE -1

\* strings.Contains(s, c) for a one-character c
Contains(s, c) == \E i \in 1..Len(s) : s[i] = c

trimQuotes(s) ==
    IF Len(s) >= 2 /\ s[1] = "\"" /\ s[Len(s)] = "\""
    THEN SubSeq(s, 2, Len(s) - 1)
    ELSE s

RECURSIVE DecVal(_)
\* the value of a non-empty run of decimal digits
DecVal(s) ==
    IF Len(s) = 0 THEN 0
    ELSE 10 * DecVal(SubSeq(s, 1, Len(s) - 1)) + DigitVal(s[Len(s)])

AllDigits(s) == Len(s) > 0 /\ \A i \in 1..Len(s) : s[i] \in Digits

\* strconv.Atoi(s): optional sign, then decimal digits
Atoi(s) ==
    LET signed == Len(s) > 0 /\ s[1] \in {"+", "-"}
        body   == IF signed THEN Tail(s) ELSE s
    IN  IF AllDigits(body)
        THEN [ok |-> TRUE,
              n  |-> IF signed /\ s[1] = "-" THEN 0 - DecVal(body) ELSE DecVal(body)]
        ELSE [ok |-> FALSE, n |-> 0]

\* strconv.ParseBool(s)
ParseBool(s) ==
    IF s \in {<<"1">>, <<"t">>, <<"T">>, <<"t","r","u","e">>, <<"T","R","U","E">>,
              <<"T","r","u","e">>}
    THEN [ok |-> TRUE, b |-> TRUE]
    ELSE IF s \in {<<"0">>, <<"f">>, <<"F">>, <<"f","a","l","s","e">>,
                   <<"F","A","L","S","E">>, <<"F","a","l","s","e">>}
    THEN [ok |-> TRUE, b |-> FALSE]
    ELSE [ok |-> FALSE, b |-> FALSE]

----------------------------------------------------------------------------
(* net.ParseIP / net.ParseCIDR, IPv4 dotted decimal *)

RECURSIVE SplitOn(_, _)
\* the fields of s between occurrences of the character c
SplitOn(s, c) ==
    LET i == Index(s, c)
    IN  IF i < 0 THEN <<s>>
        ELSE <<SubSeq(s, 1, i)>> \o SplitOn(SubSeq(s, i + 2, Len(s)), c)

\* one octet: 1 to 3 digits, no leading zero, at most 255
OctetOk(f) ==
    /\ AllDigits(f)
    /\ Len(f) <= 3
    /\ (Len(f) > 1 => f[1] # "0")
    /\ DecVal(f) <= 255

NilIP == <<>>

\* the address of the dot-separated fields fs: four octets, or nil
ipOfFields(fs) ==
    IF Len(fs) = 4 /\ \A i \in 1..4 : OctetOk(fs[i])
    THEN [i \in 1..4 |-> DecVal(fs[i])]
    ELSE NilIP

\* net.ParseIP(s): the four octets, or nil
ParseIP(s) == ipOfFields(SplitOn(s, "."))

RECURSIVE Pow2(_)
Pow2(n) == IF n = 0 THEN 1 ELSE 2 * Pow2(n - 1)

\* net.CIDRMask(ones, 32)
CIDRMask(ones) ==
    [i \in 1..4 |->
        LET k == IF ones >= 8 * i THEN 8
                 ELSE IF ones <= 8 * (i - 1) THEN 0
                 ELSE ones - 8 * (i - 1)
        IN  256 - Pow2(8 - k)]

\* the address ip with the prefix length written m
cidrOf(ip, m) ==
    IF ip = NilIP \/ ~AllDigits(m) \/ Len(m) > 2 \/ DecVal(m) > 32
    THEN [ok |-> FALSE, ip |-> NilIP, mask |-> NilIP]
    ELSE [ok |-> TRUE, ip |-> ip, mask |-> CIDRMask(DecVal(m))]

\* net.ParseCIDR(s): address "/" prefix length
ParseCIDR(s) ==
    LET i == Index(s, "/")
    IN  IF i < 0 THEN [ok |-> FALSE, ip |-> NilIP, mask |-> NilIP]
        ELSE cidrOf(ParseIP(SubSeq(s, 1, i)), SubSeq(s, i + 2, Len(s)))

----------------------------------------------------------------------------
(* Values, FlagMapItem, errors *)

StrV(s)       == [t |-> "string", s |-> s, b |-> FALSE, n |-> 0, ip |-> NilIP, mask |-> NilIP]
BoolV(b)      == [t |-> "bool", s |-> <<>>, b |-> b, n |-> 0, ip |-> NilIP, mask |-> NilIP]
IntV(n)       == [t |-> "int", s |-> <<>>, b |-> FALSE, n |-> n, ip |-> NilIP, mask |-> NilIP]
IPandMASK(ip, mask) == [t |-> "ipn", s |-> <<>>, b |-> FALSE, n |-> 0, ip |-> ip, mask |-> mask]

FlagMapItem(v, isDefault) == [Value |-> v, IsDefault |-> isDefault]

\* res[k] = item
Put(m, k, item) == [x \in DOMAIN m \cup {k} |-> IF x = k THEN item ELSE m[x]]

NoErr == [kind |-> "nil", flag |-> <<>>, c1 |-> <<>>, c2 |-> <<>>]
Err(kind, flag) == [kind |-> kind, flag |-> flag, c1 |-> <<>>, c2 |-> <<>>]
AmbiguousErr(a, c1, c2) == [kind |-> "ambiguous", flag |-> a, c1 |-> c1, c2 |-> c2]

----------------------------------------------------------------------------
(* Registration *)

flagItem(short, long, help, helpArgs, helpShowDefault, defaultValue) ==
    [Short |-> short, Long |-> long, Help |-> help, HelpArgs |-> helpArgs,
     HelpShowDefault |-> helpShowDefault, Default |-> defaultValue]

\* the validation at the head of register: TRUE when it panics
registerPanics(short, long, help) ==
    \/ Len(short) > 1
    \/ HasPrefix(short, <<"-">>)
    \/ Len(long) = 0
    \/ HasPrefix(long, <<"-">>)
    \/ Len(help) = 0

\* the list after register's append
appendFlag(l, item) == Append(l, item)

\* f.defaults[long] = df
setDefault(d, long, df) == Put(d, long, df)

\* no parse call has returned
NoParse ==
    /\ pArgs = <<>>
    /\ res = EmptyMap
    /\ rest = <<>>
    /\ err = NoErr
    /\ bound = <<>>
    /\ flagPos = <<>>

\* no Do call has returned
NoDo ==
    /\ doIn = [line |-> <<>>, pos |-> 0, findErr |-> FALSE, cmd |-> "nil",
               rest |-> <<>>, cands |-> <<>>]
    /\ doCall = [called |-> FALSE, prefix |-> <<>>, rest |-> <<>>]
    /\ newLine = <<>>
    /\ length = 0
    /\ doPanic = FALSE

\* the record of the last parse call is dropped
ResetParse ==
    /\ pArgs' = <<>>
    /\ res' = EmptyMap
    /\ rest' = <<>>
    /\ err' = NoErr
    /\ bound' = <<>>
    /\ flagPos' = <<>>

\* the record of the last Do call is dropped
ResetDo ==
    /\ doIn' = [line |-> <<>>, pos |-> 0, findErr |-> FALSE, cmd |-> "nil",
                rest |-> <<>>, cands |-> <<>>]
    /\ doCall' = [called |-> FALSE, prefix |-> <<>>, rest |-> <<>>]
    /\ newLine' = <<>>
    /\ length' = 0
    /\ doPanic' = FALSE

register(short, long, help, helpArgs, helpShowDefault, defaultValue, df, pf) ==
    /\ Len(list) < MaxFlags
    /\ \/ /\ registerPanics(short, long, help)
          /\ op' = "panic"
          /\ UNCHANGED regVars
       \/ /\ ~registerPanics(short, long, help)
          /\ list' = appendFlag(list, flagItem(short, long, help, helpArgs,
                                                helpShowDefault, defaultValue))
          /\ defaults' = setDefault(defaults, long, df)
          /\ parsers' = Append(parsers, pf)
          /\ op' = "register"
    /\ ResetParse
    /\ ResetDo

\* the default closure every typed registration builds
defaultFunc(long, defaultValue) == [long |-> long, value |-> defaultValue]

\* the parse closure every typed registration builds
parseFunc(kind, short, long) == [kind |-> kind, short |-> short, long |-> long]

FlagsString(short, long, defaultValue, help) ==
    register(short, long, help, "string", TRUE, StrV(defaultValue),
             defaultFunc(long, StrV(defaultValue)), parseFunc("string", short, long))

FlagsBool(short, long, defaultValue, help) ==
    register(short, long, help, "", FALSE, BoolV(defaultValue),
             defaultFunc(long, BoolV(defaultValue)), parseFunc("bool", short, long))

FlagsInt(short, long, defaultValue, help) ==
    register(short, long, help, "int", TRUE, IntV(defaultValue),
             defaultFunc(long, IntV(defaultValue)), parseFunc("int", short, long))

FlagsIPN(short, long, defaultValue, help) ==
    register(short, long, help, "ip", TRUE, defaultValue,
             defaultFunc(long, defaultValue), parseFunc("ipn", short, long))

----------------------------------------------------------------------------
(* The parse closures *)

match(flag, short, long) == Len(long) > 0 /\ flag = long

\* what a parse closure returns, with the FlagMap as it left it
PR(args, parsed, e, m) == [args |-> args, parsed |-> parsed, err |-> e, res |-> m]

StringParse(p, flag, equalVal, args, m) ==
    IF ~match(flag, p.short, p.long) THEN PR(args, FALSE, NoErr, m)
    ELSE IF Len(equalVal) > 0
    THEN PR(args, TRUE, NoErr,
            Put(m, p.long, FlagMapItem(StrV(trimQuotes(equalVal)), FALSE)))
    ELSE IF Len(args) = 0
    THEN PR(args, FALSE, Err("missing string value", flag), m)
    ELSE PR(Tail(args), TRUE, NoErr, Put(m, p.long, FlagMapItem(StrV(Head(args)), FALSE)))

BoolParse(p, flag, equalVal, args, m) ==
    IF ~match(flag, p.short, p.long) THEN PR(args, FALSE, NoErr, m)
    ELSE IF Len(equalVal) > 0
    THEN LET b == ParseBool(equalVal)
         IN  IF ~b.ok THEN PR(args, FALSE, Err("invalid boolean value", flag), m)
             ELSE PR(args, TRUE, NoErr, Put(m, p.long, FlagMapItem(BoolV(b.b), FALSE)))
    ELSE PR(args, TRUE, NoErr, Put(m, p.long, FlagMapItem(BoolV(TRUE), FALSE)))

\* IntParse writing the entry before the value is converted
IntParseEarlyWrite(p, flag, equalVal, args, m) ==
    IF ~match(flag, p.short, p.long) THEN PR(args, FALSE, NoErr, m)
    ELSE IF Len(equalVal) = 0 /\ Len(args) = 0
    THEN PR(args, FALSE, Err("missing int value", flag), m)
    ELSE LET vStr == IF Len(equalVal) > 0 THEN equalVal ELSE Head(args)
             rem  == IF Len(equalVal) > 0 THEN args ELSE Tail(args)
             i    == Atoi(vStr)
             w    == Put(m, p.long, FlagMapItem(IntV(i.n), FALSE))
         IN  IF ~i.ok THEN PR(rem, FALSE, Err("invalid int value", flag), w)
             ELSE PR(rem, TRUE, NoErr, w)

IntParse(p, flag, equalVal, args, m) ==
    IF ~match(flag, p.short, p.long) THEN PR(args, FALSE, NoErr, m)
    ELSE IF Len(equalVal) = 0 /\ Len(args) = 0
    THEN PR(args, FALSE, Err("missing int value", flag), m)
    ELSE LET vStr == IF Len(equalVal) > 0 THEN equalVal ELSE Head(args)
             rem  == IF Len(equalVal) > 0 THEN args ELSE Tail(args)
             i    == Atoi(vStr)
         IN  IF ~i.ok THEN PR(rem, FALSE, Err("invalid int value", flag), m)
             ELSE PR(rem, TRUE, NoErr, Put(m, p.long, FlagMapItem(IntV(i.n), FALSE)))

\* the address and mask the IPN closure reads from args, and the args left:
\* lines 516-542, entered with len(args) > 0
\* what follows net.ParseCIDR's answer c: args stay on an error, else left remain
cidrRead(flag, c, args, left) ==
    IF ~c.ok
    THEN [err |-> Err("bad cidr value", flag), ip |-> NilIP, mask |-> NilIP, args |-> args]
    ELSE [err |-> NoErr, ip |-> c.ip, mask |-> c.mask, args |-> left]

IPNRead(flag, args) ==
    IF Contains(args[1], "/")
    THEN cidrRead(flag, ParseCIDR(args[1]), args, Tail(args))
    ELSE IF Len(args) < 2
    THEN [err |-> Err("missing mask value", flag), ip |-> NilIP, mask |-> NilIP, args |-> args]
    ELSE IF Contains(args[2], "/")
    THEN cidrRead(flag, ParseCIDR(args[1] \o args[2]), args, Tail(Tail(args)))
    ELSE [err |-> NoErr, ip |-> ParseIP(args[1]), mask |-> ParseIP(args[2]),
          args |-> Tail(Tail(args))]

\* IPNStore testing the mask before the address
IPNStoreMaskFirst(p, flag, r, m) ==
    IF r.err.kind # "nil" THEN PR(r.args, FALSE, r.err, m)
    ELSE IF r.mask = NilIP THEN PR(r.args, FALSE, Err("bad mask value", flag), m)
    ELSE IF r.ip = NilIP THEN PR(r.args, FALSE, Err("bad ip value", flag), m)
    ELSE PR(r.args, TRUE, NoErr,
            Put(m, p.long, FlagMapItem(IPandMASK(r.ip, r.mask), FALSE)))

\* the checks of ip and mask and the write of the value: lines 544-555
IPNStore(p, flag, r, m) ==
    IF r.err.kind # "nil" THEN PR(r.args, FALSE, r.err, m)
    ELSE IF r.ip = NilIP THEN PR(r.args, FALSE, Err("bad ip value", flag), m)
    ELSE IF r.mask = NilIP THEN PR(r.args, FALSE, Err("bad mask value", flag), m)
    ELSE PR(r.args, TRUE, NoErr,
            Put(m, p.long, FlagMapItem(IPandMASK(r.ip, r.mask), FALSE)))

IPNParse(p, flag, equalVal, args, m) ==
    IF ~match(flag, p.short, p.long) THEN PR(args, FALSE, NoErr, m)
    ELSE IF Len(equalVal) > 0
    THEN PR(args, TRUE, NoErr,
            Put(m, p.long, FlagMapItem(StrV(trimQuotes(equalVal)), FALSE)))
    ELSE IF Len(args) = 0
    THEN PR(args, FALSE, Err("missing ip value", flag), m)
    ELSE IPNStore(p, flag, IPNRead(flag, args), m)

\* p(a, equalVal, args, res) for a registered parse closure p
ApplyParser(p, flag, equalVal, args, m) ==
    CASE p.kind = "string" -> StringParse(p, flag, equalVal, args, m)
      [] p.kind = "bool"   -> BoolParse(p, flag, equalVal, args, m)
      [] p.kind = "int"    -> IntParse(p, flag, equalVal, args, m)
      [] p.kind = "ipn"    -> IPNParse(p, flag, equalVal, args, m)

----------------------------------------------------------------------------
(* Flags.parse *)

RECURSIVE Scan(_, _, _)
\* the scan of f.list for the long names the token a abbreviates, from entry i,
\* full_param being full
Scan(i, a, full) ==
    IF i > Len(list) THEN [err |-> NoErr, full |-> full]
    ELSE IF Len(a) <= Len(list[i].Long) /\ HasPrefix(list[i].Long, a)
    THEN IF full # <<>>
         THEN [err |-> AmbiguousErr(a, full, list[i].Long), full |-> full]
         ELSE Scan(i + 1, a, list[i].Long)
    ELSE Scan(i + 1, a, full)

\* full_param for the token a, or the ambiguity error
expandFlag(a) == Scan(1, a, <<>>)

\* the split of a at its first '=' when that is not its first character
splitEqual(a) ==
    LET pos == Index(a, "=")
    IN  IF pos > 0
        THEN [a |-> SubSeq(a, 1, pos), equalVal |-> SubSeq(a, pos + 2, Len(a))]
        ELSE [a |-> a, equalVal |-> <<>>]

\* the args the loop is left with at 'break Loop'
loopBreakDropsToken(args) == Tail(args)

loopBreak(args) == args

RECURSIVE RunParsers(_, _, _, _, _)

\* what the loop over f.parsers does with the answer r of entry i
parserAnswered(i, a, equalVal, r) ==
    IF r.err.kind # "nil" \/ r.parsed THEN r
    ELSE RunParsers(i + 1, a, equalVal, r.args, r.res)

\* the loop over f.parsers from entry i
RunParsers(i, a, equalVal, args, m) ==
    IF i > Len(parsers) THEN PR(args, FALSE, NoErr, m)
    ELSE parserAnswered(i, a, equalVal, ApplyParser(parsers[i], a, equalVal, args, m))

\* what the flag loop hands on: args, the FlagMap, the error, and the record of
\* the long names bound and of the token indexes inspected in flag position
LR(args, m, e, bnd, fps) ==
    [args |-> args, res |-> m, err |-> e, bound |-> bnd, flagPos |-> fps]

RECURSIVE ParseLoop(_, _, _, _, _)

\* lines 142-150: what the loop does with the answer r of the parse closures
parsersAnswered(r, a, args, idx, bnd, fps) ==
    IF r.err.kind # "nil" THEN LR(<<>>, r.res, r.err, bnd, fps)
    ELSE IF ~r.parsed THEN LR(<<>>, r.res, Err("invalid flag", a), bnd, fps)
    ELSE ParseLoop(r.args, r.res, idx + Len(args) - Len(r.args), Append(bnd, a), fps)

\* lines 134-149: the token is dropped, sp is the split name, the closures run
dispatchFlag(sp, args, m, idx, bnd, fps) ==
    parsersAnswered(RunParsers(1, sp.a, sp.equalVal, Tail(args), m),
                    sp.a, args, idx, bnd, fps)

\* lines 118-132: what the loop does with the expansion x of args[0]
flagExpanded(x, args, m, idx, bnd, fps) ==
    IF x.err.kind # "nil" THEN LR(<<>>, m, x.err, bnd, fps)
    ELSE IF x.full = <<>> THEN LR(loopBreak(args), m, NoErr, bnd, fps)
    ELSE dispatchFlag(splitEqual(x.full), args, m, idx, bnd, fps)

\* the flag loop, idx being the index of args[0] in the args parse was given
ParseLoop(args, m, idx, bnd, fps) ==
    IF Len(args) = 0 THEN LR(args, m, NoErr, bnd, fps)
    ELSE flagExpanded(expandFlag(Head(args)), args, m, idx, bnd, Append(fps, idx))

\* df(res) for a default closure df
applyDefault(df, m) == Put(m, df.long, FlagMapItem(df.value, TRUE))

RECURSIVE DefaultFill(_, _)
\* the loop over f.list from entry i that sets the defaults of the flags not passed
DefaultFill(i, m) ==
    IF i > Len(list) THEN [res |-> m, err |-> NoErr]
    ELSE IF list[i].Long \in DOMAIN m THEN DefaultFill(i + 1, m)
    ELSE IF list[i].Long \notin DOMAIN defaults
    THEN [res |-> m, err |-> Err("invalid flag: missing default function", list[i].Long)]
    ELSE DefaultFill(i + 1, applyDefault(defaults[list[i].Long], m))

\* lines 158-169: what parse returns once the default loop has answered d
defaultsSet(l, d) ==
    IF d.err.kind # "nil"
    THEN LR(<<>>, d.res, d.err, l.bound, l.flagPos)
    ELSE LR(l.args, d.res, NoErr, l.bound, l.flagPos)

\* lines 153-169: what parse does once the flag loop has answered l
loopEnded(l) ==
    IF l.err.kind # "nil" THEN l
    ELSE IF DOMAIN defaults = {} THEN l
    ELSE defaultsSet(l, DefaultFill(1, l.res))

\* f.parse(args, res)
parse(args, m) == loopEnded(ParseLoop(args, m, 1, <<>>, <<>>))

----------------------------------------------------------------------------
(* Inputs *)

SeqsUpTo(S, n) == UNION {[1..k -> S] : k \in 0..n}

foo      == <<"f", "o", "o">>
force    == <<"f", "o", "r", "c", "e">>
fooQuote == <<"f", "o", "o", "=", "\"", "q", "\"">>
nn       == <<"n">>
helpText == <<"h">>

\* the registrations tried: kind, short, long, default, help
FlagPool ==
    { [kind |-> "string", short |-> <<>>, long |-> foo, def |-> <<"d">>, help |-> helpText],
      [kind |-> "string", short |-> <<>>, long |-> foo, def |-> <<"e">>, help |-> helpText],
      [kind |-> "string", short |-> <<>>, long |-> fooQuote, def |-> <<>>, help |-> helpText],
      [kind |-> "bool", short |-> <<>>, long |-> force, def |-> FALSE, help |-> helpText],
      [kind |-> "int", short |-> nn, long |-> nn, def |-> 7, help |-> helpText],
      [kind |-> "bool", short |-> <<>>, long |-> <<"-", "x">>, def |-> FALSE, help |-> helpText] }

\* the tokens parse is tried on
TokenPool ==
    { <<"f", "o">>, <<"f", "o", "r">>, foo, <<"f", "o", "o", "=">>,
      <<"f", "o", "o", "=", "h">>, nn, <<"4">> }

----------------------------------------------------------------------------
(* Actions *)

Init ==
    /\ list = <<>>
    /\ parsers = <<>>
    /\ defaults = EmptyMap
    /\ op = "init"
    /\ NoParse
    /\ NoDo

\* one of the typed registrations
Register(f) ==
    CASE f.kind = "string" -> FlagsString(f.short, f.long, f.def, f.help)
      [] f.kind = "bool"   -> FlagsBool(f.short, f.long, f.def, f.help)
      [] f.kind = "int"    -> FlagsInt(f.short, f.long, f.def, f.help)
      [] f.kind = "ipn"    -> FlagsIPN(f.short, f.long, f.def, f.help)

\* a call of parse with a fresh FlagMap
parseReturned(args, r) ==
    /\ pArgs' = args
    /\ res' = r.res
    /\ rest' = r.args
    /\ err' = r.err
    /\ bound' = r.bound
    /\ flagPos' = r.flagPos

Parse(args) ==
    /\ op \notin {"parse", "do"}
    /\ parseReturned(args, parse(args, EmptyMap))
    /\ op' = "parse"
    /\ ResetDo
    /\ UNCHANGED regVars

\* the caller has taken the result of the last call
Return ==
    /\ op \in {"parse", "do"}
    /\ op' = "idle"
    /\ ResetParse
    /\ ResetDo
    /\ UNCHANGED regVars

Next ==
    \/ \E f \in FlagPool : Register(f)
    \/ \E args \in SeqsUpTo(TokenPool, MaxArgs) : Parse(args)
    \/ Return

Spec == Init /\ [][Next]_vars

----------------------------------------------------------------------------
(* The address+mask flag on its own *)

netName == <<"n", "e", "t">>
addr1234 == <<"1", ".", "2", ".", "3", ".", "4">>

NetFlagPool ==
    { [kind |-> "ipn", short |-> <<>>, long |-> netName,
       def |-> IPandMASK(<<0, 0, 0, 0>>, <<0, 0, 0, 0>>), help |-> helpText],
      [kind |-> "bool", short |-> <<"v">>, long |-> <<"v">>, def |-> FALSE, help |-> helpText] }

NetTokenPool ==
    { netName, addr1234, addr1234 \o <<"/", "8">>, <<"b", "a", "d">>, <<"/", "8">>,
      <<"2", "5", "5", ".", "0", ".", "0", ".", "0">>,
      <<"1", ".", "2", ".", "3", ".">>, <<"4", "/", "8">> }

NextNet ==
    \/ \E f \in NetFlagPool : Register(f)
    \/ \E args \in SeqsUpTo(NetTokenPool, MaxNetArgs) : Parse(args)
    \/ Return

SpecNet == Init /\ [][NextNet]_vars

----------------------------------------------------------------------------
(* The command tree the completer reads *)

helpWord == <<"h", "e", "l", "p">>
noWord   == <<"n", "o">>
stamp    == <<"s", "t", "a", "m", "p">>

CommandIds == {"status", "start", "cfg", "run", "stop"}

\* c.commands.list
RootList == <<"status", "start", "cfg", "run">>

\* a Command: Name, Aliases, whether Completer is set, commands.list, and whether
\* its flags are the registry of this model
Command(id) ==
    CASE id = "status" -> [Name |-> <<"s", "t", "a", "t", "u", "s">>, Aliases |-> <<>>,
                           Completer |-> FALSE, commands |-> <<>>, flags |-> FALSE]
      [] id = "start"  -> [Name |-> <<"s", "t", "a", "r", "t">>, Aliases |-> <<>>,
                           Completer |-> FALSE, commands |-> <<>>, flags |-> FALSE]
      [] id = "cfg"    -> [Name |-> <<"c", "f", "g">>, Aliases |-> <<>>,
                           Completer |-> FALSE, commands |-> <<"stop">>, flags |-> TRUE]
      [] id = "run"    -> [Name |-> <<"r", "u", "n">>, Aliases |-> << <<"r", "u", "n", "s">> >>,
                           Completer |-> TRUE, commands |-> <<>>, flags |-> FALSE]
      [] id = "stop"   -> [Name |-> <<"s", "t", "o", "p">>, Aliases |-> <<>>,
                           Completer |-> FALSE, commands |-> <<>>, flags |-> FALSE]

\* cmd.flags.list
CommandFlags(id) == IF Command(id).flags THEN list ELSE <<>>

\* the answers FindCommand may give for words: an error, no command, or a command
\* of the tree with the words it left unresolved
FindCommand(words) ==
    {[err |-> TRUE, cmd |-> "nil", rest |-> <<>>],
     [err |-> FALSE, cmd |-> "nil", rest |-> <<>>]}
    \cup {[err |-> FALSE, cmd |-> c, rest |-> SubSeq(words, k + 1, Len(words))] :
            c \in CommandIds, k \in 1..Len(words)}

\* the candidate lists a custom completer may return
CompleterAnswers == {<<>>, << <<"s", "t", "x">>, <<"a", "b">> >>}

----------------------------------------------------------------------------
(* completer.Do *)

RECURSIVE shlexScan(_, _, _, _, _, _)
\* shlex.Split over letters, spaces and double quotes, from character i: cur is
\* the word being read, started whether one is, inQuote whether a quote is open
shlexScan(line, i, cur, started, inQuote, words) ==
    IF i > Len(line)
    THEN IF inQuote THEN [err |-> TRUE, words |-> <<>>]
         ELSE [err |-> FALSE, words |-> IF started THEN Append(words, cur) ELSE words]
    ELSE IF inQuote
    THEN IF line[i] = "\"" THEN shlexScan(line, i + 1, cur, TRUE, FALSE, words)
         ELSE shlexScan(line, i + 1, Append(cur, line[i]), TRUE, TRUE, words)
    ELSE IF line[i] = "\"" THEN shlexScan(line, i + 1, cur, TRUE, TRUE, words)
    ELSE IF line[i] = " "
    THEN shlexScan(line, i + 1, <<>>, FALSE, FALSE,
                   IF started THEN Append(words, cur) ELSE words)
    ELSE shlexScan(line, i + 1, Append(cur, line[i]), TRUE, FALSE, words)

RECURSIVE fieldsScan(_, _, _, _)
\* strings.Fields from character i
fieldsScan(line, i, cur, words) ==
    IF i > Len(line) THEN (IF cur # <<>> THEN Append(words, cur) ELSE words)
    ELSE IF line[i] = " "
    THEN fieldsScan(line, i + 1, <<>>, IF cur # <<>> THEN Append(words, cur) ELSE words)
    ELSE fieldsScan(line, i + 1, Append(cur, line[i]), words)

\* lines 45-49: shlex's words, or the fields when shlex fails
splitOrFields(sp, line) ==
    IF ~sp.err THEN sp.words ELSE fieldsScan(line, 1, <<>>, <<>>)

lineWords(line) == splitOrFields(shlexScan(line, 1, <<>>, FALSE, FALSE, <<>>), line)

\* line 52 reads line[pos-1] when there are words: it panics for pos = 0
indexPanics(words, pos) == Len(words) > 0 /\ pos = 0

\* lines 51-55 (no panic): the last word is the prefix unless a space precedes
\* the cursor
hasPrefixWord(words, line, pos) == Len(words) > 0 /\ line[pos] # " "

prefixOf(words, line, pos) ==
    IF hasPrefixWord(words, line, pos) THEN words[Len(words)] ELSE <<>>

wordsBeforePrefix(words, line, pos) ==
    IF hasPrefixWord(words, line, pos) THEN SubSeq(words, 1, Len(words) - 1) ELSE words

\* lines 58-60
stripHelp(words) ==
    IF Len(words) > 0 /\ words[1] = helpWord THEN Tail(words) ELSE words

\* lines 63-65
stripNo(words) ==
    IF Len(words) > 0 /\ words[1] = noWord THEN Tail(words) ELSE words

stringInSlice(x, l) == \E i \in 1..Len(l) : x = l[i]

RECURSIVE aliasSuggestions(_, _, _)
\* lines 105-109, from alias i
aliasSuggestions(aliases, i, prefix) ==
    IF i > Len(aliases) THEN <<>>
    ELSE (IF HasPrefix(aliases[i], prefix)
          THEN <<TrimPrefix(aliases[i], prefix)>> ELSE <<>>)
         \o aliasSuggestions(aliases, i + 1, prefix)

\* lines 102-109 for one command
cmdPrefixSuggestions(c, prefix) ==
    (IF HasPrefix(c.Name, prefix) THEN <<TrimPrefix(c.Name, prefix)>> ELSE <<>>)
    \o aliasSuggestions(c.Aliases, 1, prefix)

\* flagPrefixSuggestions without the length test on the long form
flagPrefixSuggestionsNotLonger(f, prefix) ==
    (IF Len(f.Short) > 0 /\ Len(prefix) < Len(f.Short) /\ HasPrefix(f.Short, prefix)
     THEN <<TrimPrefix(f.Short, prefix)>> ELSE <<>>)
    \o (IF HasPrefix(f.Long, prefix) /\ f.Long # noWord
        THEN <<TrimPrefix(f.Long, prefix)>> ELSE <<>>)

\* lines 114-126 for one flag
flagPrefixSuggestions(f, prefix) ==
    (IF Len(f.Short) > 0 /\ Len(prefix) < Len(f.Short) /\ HasPrefix(f.Short, prefix)
     THEN <<TrimPrefix(f.Short, prefix)>> ELSE <<>>)
    \o (IF Len(prefix) < Len(f.Long) /\ HasPrefix(f.Long, prefix) /\ f.Long # noWord
        THEN <<TrimPrefix(f.Long, prefix)>> ELSE <<>>)

\* flagEmptySuggestions without the test against the words
flagEmptySuggestionsRepeats(f, words) ==
    (IF f.Long # noWord THEN <<f.Long>> ELSE <<>>)
    \o (IF Len(f.Short) > 0 THEN <<f.Short>> ELSE <<>>)

\* lines 135-140 for one flag
flagEmptySuggestions(f, words) ==
    (IF f.Long # noWord /\ ~stringInSlice(f.Long, words) THEN <<f.Long>> ELSE <<>>)
    \o (IF Len(f.Short) > 0 THEN <<f.Short>> ELSE <<>>)

RECURSIVE cmdLoop(_, _, _)
\* the loops over cmds.list (lines 101-110 and 130-132), from entry i
cmdLoop(cmds, i, prefix) ==
    IF i > Len(cmds) THEN <<>>
    ELSE (IF Len(prefix) > 0 THEN cmdPrefixSuggestions(Command(cmds[i]), prefix)
          ELSE <<Command(cmds[i]).Name>>)
         \o cmdLoop(cmds, i + 1, prefix)

RECURSIVE flagLoop(_, _, _, _)
\* the loops over flags.list (lines 113-127 and 134-141), from entry i
flagLoop(fl, i, prefix, words) ==
    IF i > Len(fl) THEN <<>>
    ELSE (IF Len(prefix) > 0 THEN flagPrefixSuggestions(fl[i], prefix)
          ELSE flagEmptySuggestions(fl[i], words))
         \o flagLoop(fl, i + 1, prefix, words)

\* lines 146-148
appendSpace(sugg) == [i \in 1..Len(sugg) |-> Append(sugg[i], " ")]

\* lines 100-150: the default suggestions for the commands cmds and the flags fl
defaultSuggestions(cmds, fl, prefix, words) ==
    appendSpace(cmdLoop(cmds, 1, prefix) \o flagLoop(fl, 1, prefix, words))

\* completerSuggestions with a space appended to each candidate
completerSuggestionsSpaced(cands, prefix) ==
    [i \in 1..Len(cands) |-> Append(TrimPrefix(cands[i], prefix), " ")]

\* lines 85-87
completerSuggestions(cands, prefix) ==
    [i \in 1..Len(cands) |-> TrimPrefix(cands[i], prefix)]

NoCall == [called |-> FALSE, prefix |-> <<>>, rest |-> <<>>]

doRecord(line, pos, fc, cands) ==
    [line |-> line, pos |-> pos, findErr |-> fc.err, cmd |-> fc.cmd,
     rest |-> fc.rest, cands |-> cands]

NoFind == [err |-> FALSE, cmd |-> "nil", rest |-> <<>>]

\* what Do returns
doReturns(sugg, n, call, panicked) ==
    /\ newLine' = sugg
    /\ length' = n
    /\ doCall' = call
    /\ doPanic' = panicked

\* lines 77-98 and on: Do once FindCommand has answered fc
commandFound(line, pos, prefix, words, fc) ==
    \/ /\ fc.err \/ fc.cmd = "nil"
       /\ doIn' = doRecord(line, pos, fc, <<>>)
       /\ doReturns(<<>>, 0, NoCall, FALSE)
    \/ /\ ~fc.err /\ fc.cmd # "nil" /\ Command(fc.cmd).Completer
       /\ \E cands \in CompleterAnswers :
            /\ doIn' = doRecord(line, pos, fc, cands)
            /\ doReturns(completerSuggestions(cands, prefix), Len(prefix),
                         [called |-> TRUE, prefix |-> prefix, rest |-> fc.rest], FALSE)
    \/ /\ ~fc.err /\ fc.cmd # "nil" /\ ~Command(fc.cmd).Completer
       /\ fc.rest # <<>>
       /\ doIn' = doRecord(line, pos, fc, <<>>)
       /\ doReturns(<<>>, 0, NoCall, FALSE)
    \/ /\ ~fc.err /\ fc.cmd # "nil" /\ ~Command(fc.cmd).Completer
       /\ fc.rest = <<>>
       /\ doIn' = doRecord(line, pos, fc, <<>>)
       /\ doReturns(defaultSuggestions(Command(fc.cmd).commands, CommandFlags(fc.cmd),
                                       prefix, words),
                    Len(prefix), NoCall, FALSE)

\* lines 57-150: Do with the prefix and the words left of it
prefixSplit(line, pos, prefix, words) ==
    \/ /\ words = <<>>
       /\ doIn' = doRecord(line, pos, NoFind, <<>>)
       /\ doReturns(defaultSuggestions(RootList, <<>>, prefix, words),
                    Len(prefix), NoCall, FALSE)
    \/ /\ words # <<>>
       /\ \E fc \in FindCommand(words) : commandFound(line, pos, prefix, words, fc)

\* lines 51-150: Do with the words of the line
lineSplit(line, pos, words0) ==
    \/ /\ indexPanics(words0, pos)
       /\ doIn' = doRecord(line, pos, NoFind, <<>>)
       /\ doReturns(<<>>, 0, NoCall, TRUE)
    \/ /\ ~indexPanics(words0, pos)
       /\ prefixSplit(line, pos, prefixOf(words0, line, pos),
                      stripNo(stripHelp(wordsBeforePrefix(words0, line, pos))))

\* completer.Do(line, pos)
Do(line, pos) ==
    /\ op \notin {"parse", "do"}
    /\ lineSplit(line, pos, lineWords(line))
    /\ op' = "do"
    /\ ResetParse
    /\ UNCHANGED regVars

----------------------------------------------------------------------------
(* Completion inputs *)

DoFlagPool ==
    { [kind |-> "string", short |-> <<"s">>, long |-> stamp, def |-> <<>>, help |-> helpText],
      [kind |-> "bool", short |-> <<>>, long |-> helpWord, def |-> FALSE, help |-> helpText],
      [kind |-> "bool", short |-> <<>>, long |-> noWord, def |-> FALSE, help |-> helpText] }

WordPool == { <<"s", "t">>, <<"c", "f", "g">>, <<"r", "u", "n">>, helpWord, stamp }

RECURSIVE joinWords(_)
\* the words separated by single spaces
joinWords(ws) ==
    IF Len(ws) = 0 THEN <<>>
    ELSE IF Len(ws) = 1 THEN ws[1]
    ELSE ws[1] \o <<" ">> \o joinWords(Tail(ws))

\* the lines typed: words joined by spaces, with or without a space at the end,
\* two lines with quotes, and one line with a word more
LinePool ==
    {joinWords(ws) \o tl : ws \in SeqsUpTo(WordPool, MaxWords), tl \in {<<>>, <<" ">>}}
    \cup { <<"\"", "s", "t">>, <<"c", "f", "g", " ", "\"", "s", "t", "\"">>,
           <<"r", "u", "n", " ", "c", "f", "g", " ", "s", "t">> }

\* the cursor positions tried on a line
PosPool(line) == {0, Len(line) \div 2, Len(line)}

NextDo ==
    \/ \E f \in DoFlagPool : Register(f)
    \/ \E line \in LinePool : \E pos \in PosPool(line) : Do(line, pos)
    \/ Return

SpecDo == Init /\ [][NextDo]_vars

----------------------------------------------------------------------------
(* Properties of the registry and of parse *)

Range(q) == {q[i] : i \in 1..Len(q)}

\* the entries of f.list whose long name the token t is a prefix of (or equals)
Matches(t) == {i \in 1..Len(list) : HasPrefix(list[i].Long, t)}

\* C1: a single token <long>=<value> for a registered string flag <long> parses
\* without error, is consumed, and binds <long> to <value>, surrounding double
\* quotes stripped, with IsDefault = FALSE.
C1_InlineValue ==
    \A i \in 1..Len(list) :
        LET long == list[i].Long
            v    == SubSeq(pArgs[1], Len(long) + 2, Len(pArgs[1]))
        IN  ( /\ op = "parse"
              /\ list[i].HelpArgs = "string"
              /\ Len(pArgs) = 1
              /\ HasPrefix(pArgs[1], long \o <<"=">>)
              /\ Len(v) > 0 )
            => /\ err = NoErr
               /\ rest = <<>>
               /\ long \in DOMAIN res
               /\ res[long] = FlagMapItem(StrV(trimQuotes(v)), FALSE)

\* C2: after a successful parse into a fresh FlagMap every registered flag has an
\* entry; the entry has IsDefault = FALSE exactly when the flag was matched among
\* the consumed tokens, and otherwise holds the flag's declared default.
C2_AllPresent ==
    (op = "parse" /\ err = NoErr) =>
        \A i \in 1..Len(list) :
            LET long == list[i].Long
            IN  /\ long \in DOMAIN res
                /\ (res[long].IsDefault = FALSE) <=> (long \in Range(bound))
                /\ res[long].IsDefault => res[long].Value = list[i].Default

\* C3: a token in flag position that is a prefix of two or more registered long
\* names fails the parse with the ambiguity error naming two of them and no
\* remaining tokens; a token that is a prefix of exactly one registered long name
\* binds that flag.
C3_Abbreviation ==
    op = "parse" =>
        \A j \in 1..Len(flagPos) :
            LET M == Matches(pArgs[flagPos[j]])
            IN  /\ Cardinality(M) >= 2 =>
                    /\ j = Len(flagPos)
                    /\ err.kind = "ambiguous"
                    /\ rest = <<>>
                    /\ \E i, k \in M : /\ i # k
                                       /\ err.c1 = list[i].Long
                                       /\ err.c2 = list[k].Long
                /\ Cardinality(M) = 1 =>
                    /\ j = Len(flagPos) => err.kind # "ambiguous"
                    /\ j <= Len(bound) => \A i \in M : bound[j] = list[i].Long

\* C4: on a successful parse the returned args are the suffix of the input that
\* begins at the first token in flag position that is a prefix of no registered
\* long name (empty when every token was consumed); the tokens before it were all
\* taken as flags or flag values and the tokens from it on changed nothing.
C4_PositionalRemainder ==
    (op = "parse" /\ err = NoErr) =>
        LET k == Len(pArgs) - Len(rest)
        IN  /\ rest = SubSeq(pArgs, k + 1, Len(pArgs))
            /\ rest # <<>> => (Matches(Head(rest)) = {} /\ k + 1 \in Range(flagPos))
            /\ \A j \in 1..Len(flagPos) :
                  /\ flagPos[j] <= k + 1
                  /\ flagPos[j] <= k => Matches(pArgs[flagPos[j]]) # {}
            /\ parse(SubSeq(pArgs, 1, k), EmptyMap) =
                   LR(<<>>, res, NoErr, bound, SelectSeq(flagPos, LAMBDA x : x <= k))

\* a successful parse that bound a flag and left positional arguments
C4_Witness ==
    /\ op = "parse"
    /\ err = NoErr
    /\ Len(bound) >= 1
    /\ rest # <<>>
    /\ Len(rest) < Len(pArgs)

\* C5: when parse returns an error the FlagMap holds exactly the entries written
\* by the flags parsed before the failing one, each explicit; the failing flag
\* wrote nothing and no default was set.
C5_ErrorKeepsEarlier ==
    (op = "parse" /\ err # NoErr) =>
        LET k == flagPos[Len(flagPos)] - 1
            p == ParseLoop(SubSeq(pArgs, 1, k), EmptyMap, 1, <<>>, <<>>)
        IN  /\ p.err = NoErr
            /\ p.args = <<>>
            /\ p.bound = bound
            /\ res = p.res
            /\ DOMAIN res = Range(bound)
            /\ \A long \in DOMAIN res : ~res[long].IsDefault

\* a non-numeric value for an int flag fails the parse after an earlier flag
\* was bound
C5_Witness ==
    /\ op = "parse"
    /\ err.kind = "invalid int value"
    /\ Len(bound) >= 1
    /\ DOMAIN res # {}

\* C10: no two entries of the flag list share a long name, and no long name has
\* two parse closures.
C10_UniqueLong ==
    /\ \A i, j \in 1..Len(list) : i # j => list[i].Long # list[j].Long
    /\ \A i, j \in 1..Len(parsers) : i # j => parsers[i].long # parsers[j].long

----------------------------------------------------------------------------
(* Properties of the address+mask flag *)

\* the token net resolves to one registered address+mask flag and the token after
\* it is neither a valid address nor CIDR notation
MalformedAddress ==
    /\ op = "parse"
    /\ Len(pArgs) >= 2
    /\ pArgs[1] = netName
    /\ Cardinality(Matches(netName)) = 1
    /\ \A i \in Matches(netName) : list[i].Long = netName /\ list[i].HelpArgs = "ip"
    /\ ParseIP(pArgs[2]) = NilIP
    /\ ~Contains(pArgs[2], "/")

\* C6 as stated: for a registered address+mask flag net, whenever the token after
\* the flag name is not a valid address and not CIDR notation, the parse fails
\* with the "bad ip" error naming the flag and stores no value for it.
C6_BadIPAlways ==
    MalformedAddress =>
        /\ err = Err("bad ip value", netName)
        /\ netName \notin DOMAIN res

\* C6: for a registered address+mask flag net, when the token after the flag name
\* is not a valid address and not CIDR notation: if it is the last token the parse
\* fails with "missing mask value"; if the token after it has no "/" the parse
\* fails with "bad ip"; if the token after it has a "/" the two are joined and read
\* as CIDR, failing with "bad cidr" when that is invalid and binding net otherwise.
\* Every failure names the flag and stores no value for it.
C6_MalformedAddress ==
    MalformedAddress =>
        IF Len(pArgs) = 2
        THEN err = Err("missing mask value", netName) /\ netName \notin DOMAIN res
        ELSE IF ~Contains(pArgs[3], "/")
        THEN err = Err("bad ip value", netName) /\ netName \notin DOMAIN res
        ELSE IF ~ParseCIDR(pArgs[2] \o pArgs[3]).ok
        THEN err = Err("bad cidr value", netName) /\ netName \notin DOMAIN res
        ELSE /\ Len(bound) >= 1
             /\ bound[1] = netName
             /\ netName \in DOMAIN res
             /\ ~res[netName].IsDefault

\* net followed by a malformed address and a further token without "/" failed as
\* bad ip
C6_Witness ==
    /\ MalformedAddress
    /\ Len(pArgs) >= 3
    /\ err = Err("bad ip value", netName)
    /\ netName \notin DOMAIN res

----------------------------------------------------------------------------
(* Properties of completer.Do *)

\* the words typed on the line, the in-progress prefix, and the words left for the
\* tree traversal once the prefix and a leading help and no are dropped
DoWords == lineWords(doIn.line)
DoPrefix == prefixOf(DoWords, doIn.line, doIn.pos)
DoTraversal == stripNo(stripHelp(wordsBeforePrefix(DoWords, doIn.line, doIn.pos)))

\* Do ran the default suggestion logic: at the root, or at a resolved command
\* without a custom completer and with no words left unresolved
DefaultReached ==
    /\ op = "do"
    /\ ~doPanic
    /\ \/ DoTraversal = <<>>
       \/ /\ ~doIn.findErr
          /\ doIn.cmd # "nil"
          /\ ~Command(doIn.cmd).Completer
          /\ doIn.rest = <<>>

ScopeCmds == IF DoTraversal = <<>> THEN RootList ELSE Command(doIn.cmd).commands
ScopeFlags == IF DoTraversal = <<>> THEN <<>> ELSE CommandFlags(doIn.cmd)

RECURSIVE FlattenSeq(_)
FlattenSeq(ss) == IF ss = <<>> THEN <<>> ELSE Head(ss) \o FlattenSeq(Tail(ss))

\* names and aliases of the candidate commands, in candidate order
CmdCandidates ==
    FlattenSeq([i \in 1..Len(ScopeCmds) |->
                    <<Command(ScopeCmds[i]).Name>> \o Command(ScopeCmds[i]).Aliases])

\* short and long forms of the flags in scope, in candidate order
FlagCandidates ==
    FlattenSeq([i \in 1..Len(ScopeFlags) |->
                    (IF ScopeFlags[i].Short # <<>> THEN <<ScopeFlags[i].Short>> ELSE <<>>)
                    \o <<ScopeFlags[i].Long>>])

WithoutPrefix(x, p) == IF HasPrefix(x, p) THEN SubSeq(x, Len(p) + 1, Len(x)) ELSE x

\* C7: with a non-empty prefix p and the cursor at the end of the line, the
\* default logic suggests exactly, in candidate order, every candidate command
\* name and alias starting with p, then every flag short and long form in scope
\* that starts with p, is strictly longer than p and is not the word no, each
\* with p removed and one space appended; the returned length is the length of p.
C7_PrefixCompletion ==
    (DefaultReached /\ doIn.pos = Len(doIn.line) /\ DoPrefix # <<>>) =>
        LET p   == DoPrefix
            c   == SelectSeq(CmdCandidates, LAMBDA x : HasPrefix(x, p))
            f   == SelectSeq(FlagCandidates,
                             LAMBDA x : HasPrefix(x, p) /\ Len(x) > Len(p) /\ x # noWord)
            all == c \o f
        IN  /\ newLine = [i \in 1..Len(all) |-> WithoutPrefix(all[i], p) \o <<" ">>]
            /\ length = Len(p)

\* the line st at the root gave "atus " and "art " with length 2
C7_Witness ==
    /\ op = "do"
    /\ doIn.line = <<"s", "t">>
    /\ doIn.pos = 2
    /\ newLine = << <<"a", "t", "u", "s", " ">>, <<"a", "r", "t", " ">> >>
    /\ length = 2

\* the words resolved to a command that declares a custom completer
CompleterResolved ==
    /\ op = "do"
    /\ ~doPanic
    /\ DoTraversal # <<>>
    /\ ~doIn.findErr
    /\ doIn.cmd # "nil"
    /\ Command(doIn.cmd).Completer

\* C8: whenever the words resolve to a command with a custom completer, Do calls
\* it with the prefix and the remaining words and returns exactly its candidates,
\* in order, each with the leading prefix removed and no space added, with the
\* prefix length, also when unresolved words remain.
C8_CustomCompleter ==
    CompleterResolved =>
        /\ doCall = [called |-> TRUE, prefix |-> DoPrefix, rest |-> doIn.rest]
        /\ newLine = [i \in 1..Len(doIn.cands) |-> WithoutPrefix(doIn.cands[i], DoPrefix)]
        /\ length = Len(DoPrefix)

\* a custom completer answered for the prefix st while words remained unresolved
C8_Witness ==
    /\ CompleterResolved
    /\ doIn.rest # <<>>
    /\ DoPrefix = <<"s", "t">>
    /\ newLine = << <<"x">>, <<"a", "b">> >>
    /\ length = 2

\* C9 as stated: with an empty prefix, no flag of the resolved command whose long
\* name is among the words typed on the line has its long form suggested, and
\* every other flag, unless its long name is the word no, has.
C9_TypedWordsDedup ==
    (DefaultReached /\ DoPrefix = <<>>) =>
        \A i \in 1..Len(ScopeFlags) :
            LET long == ScopeFlags[i].Long
            IN  /\ long \in Range(DoWords) => (long \o <<" ">>) \notin Range(newLine)
                /\ (long \notin Range(DoWords) /\ long # noWord)
                       => (long \o <<" ">>) \in Range(newLine)

\* C9: with an empty prefix, where the default logic runs at a resolved command,
\* a flag whose long name is among the words left after a leading help and a
\* leading no are dropped is not suggested by its long form (the same text may
\* still come from a sub-command name or a short form), and every other flag,
\* unless its long name is the word no, is suggested with its full long name.
C9_TraversalWordsDedup ==
    (DefaultReached /\ DoPrefix = <<>>) =>
        \A i \in 1..Len(ScopeFlags) :
            LET long == ScopeFlags[i].Long
            IN  /\ ( /\ long \in Range(DoTraversal)
                     /\ \A k \in 1..Len(ScopeCmds) : Command(ScopeCmds[k]).Name # long
                     /\ \A k \in 1..Len(ScopeFlags) : ScopeFlags[k].Short # long )
                       => (long \o <<" ">>) \notin Range(newLine)
                /\ (long \notin Range(DoTraversal) /\ long # noWord)
                       => (long \o <<" ">>) \in Range(newLine)

\* with stamp typed after cfg, the flag help was suggested and stamp was not
C9_Witness ==
    /\ DefaultReached
    /\ DoPrefix = <<>>
    /\ stamp \in Range(DoTraversal)
    /\ \E i, k \in 1..Len(ScopeFlags) :
          ScopeFlags[i].Long = stamp /\ ScopeFlags[k].Long = helpWord
    /\ (helpWord \o <<" ">>) \in Range(newLine)
    /\ (stamp \o <<" ">>) \notin Range(newLine)

\* C11: for every line and every cursor position from 0 to the length of the
\* line, Do returns normally with a suggestion list and a prefix length: no call
\* aborts, and a tokenizer failure, a lookup error or a nil command only gives the
\* fallback words or no suggestions.
C11_NeverFails ==
    op = "do" =>
        /\ ~doPanic
        /\ (doIn.findErr \/ (DoTraversal # <<>> /\ doIn.cmd = "nil")) =>
               (newLine = <<>> /\ length = 0)

====
